---- MODULE Spec2Model ----
(***************************************************************************)
(* Model of the speech-capture pipeline of the Zoom Video SDK sample:      *)
(* TranscriptionManager (recognition lifecycle, restart policy, result     *)
(* dispatch, transcript log) and AudioCapture (microphone stream and the   *)
(* self-rescheduling level monitor), as written in src/README.md.          *)
(*                                                                         *)
(* Text is a sequence of one-character strings. The browser's recognition  *)
(* engine is the variable engine; Date.now() is the millisecond clock now, *)
(* which never runs backwards here. Everything runs on one event loop, so  *)
(* each handler is one atomic action.                                      *)
(***************************************************************************)
EXTENDS Integers, Sequences, FiniteSets, TLC

\* ------------------------------------------------------------------ bounds
MaxTimers == 2
MaxLedger == 2
MaxClock == 1
MaxBatches == 2
MaxSegs == 2
MaxPending == 2
MaxStreams == 2
NumBins == 2
MaxTokens == 2
MaxCalls == 3

\* ------------------------------------------------------------------ inputs
UserNames == {"alice", "bob"}
ErrorKinds == {"no-speech", "network"}
SegTexts == {<<>>, <<" ", "a">>}
Segments == [transcript : SegTexts, isFinal : BOOLEAN]
ResultLists == UNION {[1..n -> Segments] : n \in 1..MaxSegs}
\* a SpeechRecognitionEvent: the cumulative results and the index of the first new one
Events == {[results |-> r, resultIndex |-> i] : r \in ResultLists, i \in 0..MaxSegs}
SimpleEvents == {e \in Events : Len(e.results) = 1 /\ e.resultIndex = 0}
LedgerUsers == {"alice"}
\* labels a caller can pass to start(), the empty string among them
Labels == {"", "alice"}
\* ids of the participants that join and leave
UserIds == {"u1"}
\* ids of the participants where the registry is looked at on its own
RegistryIds == {"u1", "u2"}
\* magnitudes a frequency bin can hold (a byte), around the threshold
Levels == {0, 30, 31, 255}
FrequencyData == [1..NumBins -> Levels]
\* a field of a request body: absent, or a value in the text form String() gives it
Undefined == [defined |-> FALSE, text |-> <<>>]
Given(text) == [defined |-> TRUE, text |-> text]
\* values of sessionName, sessionKey and userIdentity
FieldInputs == {Undefined, Given(<<>>), Given(<<"s">>)}
\* values of role: absent, 0, 1, 2, -1, 1.5, "", " 0", "1a", null
RoleInputs ==
    {Undefined, Given(<<"0">>), Given(<<"1">>), Given(<<"2">>), Given(<<"-", "1">>), Given(<<"1", ".", "5">>),
     Given(<<>>), Given(<<" ", "0">>), Given(<<"1", "a">>), Given(<<"n", "u", "l", "l">>)}
RequestBodies ==
    [sessionName : FieldInputs, role : RoleInputs,
     sessionKey : FieldInputs, userIdentity : FieldInputs]
\* words a text given to SpeechDetection.analyze is made of
Tokens ==
    {<<>>, <<"W", "h", "a", "t">>, <<"P", "l", "e", "a", "s", "e">>,
     <<"s", "t", "a", "r", "t">>, <<"g", "r", "e", "a", "t">>, <<"b", "a", "d">>,
     <<"m", "e", "e", "t", "i", "n", "g", "?">>, <<"w", "o", "w", "!">>,
     <<"l", "i", "k", "e", "s">>, <<"t", "e", "l", "l">>, <<"m", "e">>,
     <<"r", "e", "s", "t", "a", "r", "t">>}
TokenLists == UNION {[1..n -> Tokens] : n \in 0..MaxTokens}
\* texts given to one SpeechDetection object again and again
RepeatTexts ==
    {<<>>, <<"w", "o", "w", "!">>, <<"m", "e", "e", "t", "i", "n", "g", "?">>,
     <<"P", "l", "e", "a", "s", "e">>}

VARIABLES
    tm,         \* the TranscriptionManager object (this.*)
    supported,  \* window.SpeechRecognition || window.webkitSpeechRecognition exists
    engine,     \* the SpeechRecognition object's state
    timers,     \* restart timers armed by onend (setTimeout ..., 100) and not yet fired
    now,        \* Date.now()
    out,        \* callbacks invoked by the handler that ran last, in order
    last,       \* the handler that ran last, and whether it threw
    api,        \* the caller's last start()/stop() call and what followed it
    batchNo,    \* number of result events received so far
    finalLog,   \* every onTranscript call so far: the batch it came from, the argument
    ac,         \* the AudioCapture object (this.*); 0 stands for null
    gumPending, \* start() calls suspended in await getUserMedia(...)
    streams,    \* streams getUserMedia has handed out so far (stream k, context k)
    liveTracks, \* the streams whose tracks have not been stopped
    openContexts, \* the AudioContexts that have not been closed
    rafPending, \* requestAnimationFrame callbacks scheduled and not yet run
    aout,       \* onAudioData calls of the AudioCapture handler that ran last
    alast,      \* the AudioCapture handler that ran last, and whether it threw
    aapi,       \* the caller's last AudioCapture call; whether onAudioData ran since
    ctext,      \* the text last given to SpeechDetection.analyze
    cres,       \* what analyze returned for it; <<>> before the first call
    sd,         \* the SpeechDetection object: the lastIndex of its RegExp objects
    clog,       \* every analyze call so far: the text and the result
    req,        \* the body of the request POST /api/generate-token got; <<>> before it
    res         \* the response sent to it; <<>> before it

svars == <<tm, supported, engine, timers, now, out, last, api, batchNo, finalLog>>
avars == <<ac, gumPending, streams, liveTracks, openContexts, rafPending, aout, alast, aapi>>
cvars == <<ctext, cres, sd, clog>>
hvars == <<req, res>>
vars == <<svars, avars, cvars, hvars>>

\* ------------------------------------------------------------ text helpers
IsSpace(c) == c = " "

RECURSIVE TrimStart(_)
TrimStart(s) == IF s # <<>> /\ IsSpace(Head(s)) THEN TrimStart(Tail(s)) ELSE s

RECURSIVE TrimEnd(_)
TrimEnd(s) ==
    IF s # <<>> /\ IsSpace(s[Len(s)]) THEN TrimEnd(SubSeq(s, 1, Len(s) - 1)) ELSE s

\* String.prototype.trim
Trim(s) == TrimEnd(TrimStart(s))

\* the words of a text: the tokens joined by single spaces
RECURSIVE Join(_)
Join(ts) ==
    IF ts = <<>> THEN <<>>
    ELSE IF Len(ts) = 1 THEN ts[1]
    ELSE ts[1] \o <<" ">> \o Join(Tail(ts))

Texts == {Join(ts) : ts \in TokenLists}

\* --------------------------------------------------------- SpeechDetection
UpperCase ==
    <<"A", "B", "C", "D", "E", "F", "G", "H", "I", "J", "K", "L", "M",
      "N", "O", "P", "Q", "R", "S", "T", "U", "V", "W", "X", "Y", "Z">>
LowerCase ==
    <<"a", "b", "c", "d", "e", "f", "g", "h", "i", "j", "k", "l", "m",
      "n", "o", "p", "q", "r", "s", "t", "u", "v", "w", "x", "y", "z">>
Digits == {"0", "1", "2", "3", "4", "5", "6", "7", "8", "9"}

ToLowerChar(c) ==
    IF \E i \in 1..Len(UpperCase) : UpperCase[i] = c
    THEN LowerCase[CHOOSE i \in 1..Len(UpperCase) : UpperCase[i] = c]
    ELSE c

\* String.prototype.toLowerCase
ToLowerCase(s) == [i \in 1..Len(s) |-> ToLowerChar(s[i])]

\* \w of a regular expression
IsWordChar(c) ==
    \/ \E i \in 1..Len(LowerCase) : LowerCase[i] = c \/ UpperCase[i] = c
    \/ c \in Digits
    \/ c = "_"

\* \b between the characters p and p + 1 of s
WordBoundary(s, p) ==
    LET before == p >= 1 /\ IsWordChar(s[p])
        after == p < Len(s) /\ IsWordChar(s[p + 1])
    IN  before # after

\* /\b(w1|w2|...)\b/i.test(s)
TestWords(words, s) ==
    \E word \in words :
        \E p \in 0..(Len(s) - Len(word)) :
            /\ WordBoundary(s, p)
            /\ ToLowerCase(SubSeq(s, p + 1, p + Len(word))) = word
            /\ WordBoundary(s, p + Len(word))

\* /c/.test(s) for one literal character
TestChar(c, s) == \E p \in 1..Len(s) : s[p] = c

QuestionWords ==
    {<<"w", "h", "a", "t">>, <<"w", "h", "e", "n">>, <<"w", "h", "e", "r", "e">>,
     <<"w", "h", "o">>, <<"w", "h", "y">>, <<"h", "o", "w">>, <<"c", "a", "n">>,
     <<"c", "o", "u", "l", "d">>, <<"w", "o", "u", "l", "d">>,
     <<"s", "h", "o", "u", "l", "d">>, <<"i", "s">>, <<"a", "r", "e">>, <<"d", "o">>,
     <<"d", "o", "e", "s">>, <<"d", "i", "d">>}
CueWords ==
    {<<"p", "l", "e", "a", "s", "e">>, <<"t", "e", "l", "l", " ", "m", "e">>,
     <<"e", "x", "p", "l", "a", "i", "n">>, <<"d", "e", "s", "c", "r", "i", "b", "e">>}
ImperativeWords ==
    {<<"s", "t", "a", "r", "t">>, <<"s", "t", "o", "p">>, <<"b", "e", "g", "i", "n">>,
     <<"e", "n", "d">>, <<"p", "a", "u", "s", "e">>, <<"r", "e", "s", "u", "m", "e">>,
     <<"n", "e", "x", "t">>, <<"p", "r", "e", "v", "i", "o", "u", "s">>}
UiActionWords ==
    {<<"s", "h", "o", "w">>, <<"h", "i", "d", "e">>,
     <<"d", "i", "s", "p", "l", "a", "y">>, <<"o", "p", "e", "n">>,
     <<"c", "l", "o", "s", "e">>}
PositiveWords ==
    {<<"g", "r", "e", "a", "t">>, <<"g", "o", "o", "d">>,
     <<"e", "x", "c", "e", "l", "l", "e", "n", "t">>,
     <<"w", "o", "n", "d", "e", "r", "f", "u", "l">>,
     <<"a", "m", "a", "z", "i", "n", "g">>,
     <<"f", "a", "n", "t", "a", "s", "t", "i", "c">>, <<"l", "o", "v", "e">>,
     <<"l", "i", "k", "e">>}
NegativeWords ==
    {<<"b", "a", "d">>, <<"t", "e", "r", "r", "i", "b", "l", "e">>,
     <<"a", "w", "f", "u", "l">>, <<"h", "a", "t", "e">>,
     <<"d", "i", "s", "l", "i", "k", "e">>, <<"w", "o", "r", "s", "t">>,
     <<"h", "o", "r", "r", "i", "b", "l", "e">>}

\* this.questionPatterns.some(pattern => pattern.test(text))
MatchesQuestion(text) ==
    TestWords(QuestionWords, text) \/ TestChar("?", text) \/ TestWords(CueWords, text)

\* this.commandPatterns.some(pattern => pattern.test(text))
MatchesCommand(text) ==
    TestWords(ImperativeWords, text) \/ TestWords(UiActionWords, text)

\* the emotion patterns with the punctuation entries ahead of the lexicons
EmotionPatterns_punctuationFirst(text) ==
    <<[emotion |-> "question", test |-> TestChar("?", text)],
      [emotion |-> "exclamation", test |-> TestChar("!", text)],
      [emotion |-> "positive", test |-> TestWords(PositiveWords, text)],
      [emotion |-> "negative", test |-> TestWords(NegativeWords, text)]>>

\* the entries of this.emotionPatterns in the order Object.entries gives them
EmotionPatterns(text) ==
    <<[emotion |-> "positive", test |-> TestWords(PositiveWords, text)],
      [emotion |-> "negative", test |-> TestWords(NegativeWords, text)],
      [emotion |-> "question", test |-> TestChar("?", text)],
      [emotion |-> "exclamation", test |-> TestChar("!", text)]>>

\* the for loop over the emotion patterns, with its break
RECURSIVE FirstEmotion(_, _)
FirstEmotion(patterns, i) ==
    IF i > Len(patterns) THEN "neutral"
    ELSE IF patterns[i].test THEN patterns[i].emotion
    ELSE FirstEmotion(patterns, i + 1)

\* String.prototype.split(/\s+/): cur is the piece being read, inRun is TRUE
\* when the character before was white space
RECURSIVE SplitFrom(_, _, _, _, _)
SplitFrom(s, i, cur, acc, inRun) ==
    IF i > Len(s) THEN Append(acc, cur)
    ELSE IF IsSpace(s[i])
         THEN IF inRun
              THEN SplitFrom(s, i + 1, cur, acc, TRUE)
              ELSE SplitFrom(s, i + 1, <<>>, Append(acc, cur), TRUE)
         ELSE SplitFrom(s, i + 1, Append(cur, s[i]), acc, FALSE)

Split(s) == SplitFrom(s, 1, <<>>, <<>>, FALSE)

\* the keywords with tokens of length 4 let through
Keywords_fromFour(words) == SelectSeq(words, LAMBDA word : Len(word) >= 4)

\* the keywords without the length filter
Keywords_noFilter(words) == words

\* words.filter(word => word.length > 4)
Keywords(words) == SelectSeq(words, LAMBDA word : Len(word) > 4)

\* analyze with the question check after the command check
analyze_questionLast(text) ==
    LET isQuestion == MatchesQuestion(text)
        isCommand == MatchesCommand(text)
        type1 == IF isCommand THEN "command" ELSE "statement"
        type2 == IF isQuestion THEN "question" ELSE type1
    IN  [hasSpeech |-> Len(Trim(text)) > 0,
         type |-> type2,
         isQuestion |-> isQuestion,
         isCommand |-> isCommand,
         emotion |-> FirstEmotion(EmotionPatterns(text), 1),
         keywords |-> Keywords(Split(ToLowerCase(text))),
         wordCount |-> Len(Split(text))]

\* SpeechDetection.analyze
analyze(text) ==
    LET isQuestion == MatchesQuestion(text)
        isCommand == MatchesCommand(text)
        type1 == IF isQuestion THEN "question" ELSE "statement"
        type2 == IF isCommand THEN "command" ELSE type1
    IN  [hasSpeech |-> Len(Trim(text)) > 0,
         type |-> type2,
         isQuestion |-> isQuestion,
         isCommand |-> isCommand,
         emotion |-> FirstEmotion(EmotionPatterns(text), 1),
         keywords |-> Keywords(Split(ToLowerCase(text))),
         wordCount |-> Len(Split(text))]

\* the object after a test() on one of its patterns with the g flag: the
\* search starts at lastIndex, which moves behind the match or back to 0
analyze_on_global(obj, text) ==
    LET from == obj.lastIndex + 1
        hits == {p \in from..Len(text) : text[p] = "?"}
        rest == IF from > Len(text) THEN <<>> ELSE SubSeq(text, from, Len(text))
    IN  [sd |-> [obj EXCEPT !.lastIndex =
                    IF hits = {} THEN 0 ELSE CHOOSE p \in hits : \A q \in hits : p <= q],
         result |-> analyze(rest)]

\* analyze as a method of the object obj. No pattern of the constructor has
\* the g or y flag, so test() always searches from the start of the text and
\* leaves lastIndex alone; the result object is built anew in every call
analyze_on(obj, text) == [sd |-> obj, result |-> analyze(text)]

\* ------------------------------------------- server.js: the token endpoint
DecimalDigits == <<"0", "1", "2", "3", "4", "5", "6", "7", "8", "9">>

DigitValue(c) == (CHOOSE i \in 1..Len(DecimalDigits) : DecimalDigits[i] = c) - 1

\* the value of the longest prefix of decimal digits of s from position i on,
\* after the digits read so far gave acc; seen says whether any digit was read
RECURSIVE ReadDigits(_, _, _, _)
ReadDigits(s, i, acc, seen) ==
    IF i <= Len(s) /\ s[i] \in Digits
    THEN ReadDigits(s, i + 1, 10 * acc + DigitValue(s[i]), TRUE)
    ELSE [nan |-> ~seen, value |-> acc]

\* parseInt(s) for the texts of RoleInputs: leading white space is skipped, a
\* sign is read, then the longest prefix of decimal digits; NaN without a digit
ParseInt(s) ==
    LET t == TrimStart(s)
        negative == t # <<>> /\ t[1] = "-"
        signed == t # <<>> /\ t[1] \in {"-", "+"}
        n == ReadDigits(t, IF signed THEN 2 ELSE 1, 0, FALSE)
    IN  IF n.nan THEN n
        ELSE [nan |-> FALSE, value |-> IF negative THEN 0 - n.value ELSE n.value]

\* !v for a field that is absent or a string
Falsy(v) == ~v.defined \/ v.text = <<>>

BadRequest == [status |-> 400, token |-> <<>>]

\* the handler of POST /api/generate-token; the token is its payload, which
\* jwt.sign signs with the secret the server checked at start-up
generateToken(body) ==
    IF Falsy(body.sessionName) \/ ~body.role.defined
       \/ Falsy(body.sessionKey) \/ Falsy(body.userIdentity)
    THEN BadRequest
    ELSE LET roleType == ParseInt(body.role.text)
         IN  IF roleType.nan \/ (roleType.value # 0 /\ roleType.value # 1)
             THEN BadRequest
             ELSE [status |-> 200,
                   token |-> <<[tpc |-> body.sessionName.text,
                                role_type |-> roleType.value,
                                session_key |-> body.sessionKey.text,
                                user_identity |-> body.userIdentity.text,
                                iat |-> now]>>]

\* -------------------------------------------------- the recognition engine
EngineActive == engine \in {"starting", "listening", "stopping"}

\* SpeechRecognition.start(): InvalidStateError when already started
recognition_start(w) ==
    IF w.engine = "inactive"
    THEN [w EXCEPT !.engine = "starting", !.starts = @ + 1, !.started = @ + 1]
    ELSE [w EXCEPT !.threw = TRUE, !.starts = @ + 1]

\* SpeechRecognition.stop(): ignored unless started; the end event follows later
recognition_stop(w) ==
    IF w.engine \in {"starting", "listening"}
    THEN [w EXCEPT !.engine = "stopping"]
    ELSE w

\* ---------------------------------------------------- TranscriptionManager
\* the state a handler runs on: the object, the engine, the timers, and what
\* the handler has done so far: its callbacks, whether it threw, how often it
\* called recognition.start() and how often that call started the engine
World ==
    [tm |-> tm, engine |-> engine, timers |-> timers,
     out |-> <<>>, threw |-> FALSE, starts |-> 0, started |-> 0]

Call(w, cb, arg) == [w EXCEPT !.out = Append(@, [cb |-> cb, arg |-> arg])]

init(w) ==
    IF ~supported
    THEN [w EXCEPT !.threw = TRUE]
    ELSE [w EXCEPT !.tm.recognition = TRUE]

onstart(w) == [w EXCEPT !.tm.isTranscribing = TRUE]

\* onend without the test of shouldContinue
onend_always(w) ==
    [w EXCEPT !.tm.isTranscribing = FALSE, !.engine = "inactive", !.timers = @ + 1]

onend(w) ==
    LET w1 == [w EXCEPT !.tm.isTranscribing = FALSE, !.engine = "inactive"]
    IN  IF w1.tm.shouldContinue
        THEN [w1 EXCEPT !.timers = @ + 1]
        ELSE w1

\* onerror without the early return on 'no-speech'
onerror_forwardAll(w, error) == Call(w, "onTranscriptionError", error)

\* onerror that also arms a restart when it forwards an error
onerror_restarts(w, error) ==
    IF error = "no-speech"
    THEN w
    ELSE [Call(w, "onTranscriptionError", error) EXCEPT !.timers = @ + 1]

onerror(w, error) ==
    IF error = "no-speech"
    THEN w
    ELSE Call(w, "onTranscriptionError", error)

\* a timer callback that never calls recognition.start()
restartTimer_idle(w) == [w EXCEPT !.timers = @ - 1]

\* the callback of setTimeout in onend
restartTimer(w) ==
    LET w1 == [w EXCEPT !.timers = @ - 1]
        w2 == recognition_start(w1)
    IN  [w2 EXCEPT !.threw = FALSE]

\* start() that sets shouldContinue before it looks for the engine
start_flagFirst(w, userName) ==
    LET w0 == [w EXCEPT !.tm.shouldContinue = TRUE]
        w1 == IF ~w0.tm.recognition THEN init(w0) ELSE w0
    IN  IF w1.threw
        THEN w1
        ELSE recognition_start([w1 EXCEPT !.tm.currentUser = userName])

\* start() that keeps the user name of an earlier start()
start_keepsFirstUser(w, userName) ==
    LET w1 == IF ~w.tm.recognition THEN init(w) ELSE w
    IN  IF w1.threw
        THEN w1
        ELSE recognition_start(
                [w1 EXCEPT !.tm.shouldContinue = TRUE,
                           !.tm.currentUser = IF @ = "" THEN userName ELSE @])

start(w, userName) ==
    LET w1 == IF ~w.tm.recognition THEN init(w) ELSE w
    IN  IF w1.threw
        THEN w1
        ELSE recognition_start(
                [w1 EXCEPT !.tm.shouldContinue = TRUE, !.tm.currentUser = userName])

\* stop() that leaves shouldContinue set
stop_keepsFlag(w) ==
    LET w2 == IF w.tm.recognition /\ w.tm.isTranscribing
              THEN recognition_stop(w)
              ELSE w
    IN  [w2 EXCEPT !.tm.isTranscribing = FALSE]

\* stop() that empties the ledger
stop_clearsLedger(w) ==
    LET w1 == [w EXCEPT !.tm.shouldContinue = FALSE, !.tm.transcriptions = <<>>]
        w2 == IF w1.tm.recognition /\ w1.tm.isTranscribing
              THEN recognition_stop(w1)
              ELSE w1
    IN  [w2 EXCEPT !.tm.isTranscribing = FALSE]

stop(w) ==
    LET w1 == [w EXCEPT !.tm.shouldContinue = FALSE]
        w2 == IF w1.tm.recognition /\ w1.tm.isTranscribing
              THEN recognition_stop(w1)
              ELSE w1
    IN  [w2 EXCEPT !.tm.isTranscribing = FALSE]

\* handleFinalTranscript without its first line
handleFinalTranscript_noGuard(w, transcript) ==
    LET transcription ==
            [id |-> now,
             user |-> IF w.tm.currentUser = "" THEN "Unknown" ELSE w.tm.currentUser,
             text |-> transcript]
    IN  Call(Call([w EXCEPT !.tm.transcriptions = Append(@, transcription)],
                  "speechDetection.analyze", transcript),
             "onTranscript", transcription)

\* handleFinalTranscript with unshift in place of push
handleFinalTranscript_unshift(w, transcript) ==
    IF Trim(transcript) = <<>>
    THEN w
    ELSE LET transcription ==
                [id |-> now,
                 user |-> IF w.tm.currentUser = "" THEN "Unknown" ELSE w.tm.currentUser,
                 text |-> transcript]
         IN  Call(Call([w EXCEPT !.tm.transcriptions = <<transcription>> \o @],
                       "speechDetection.analyze", transcript),
                  "onTranscript", transcription)

\* handleFinalTranscript that calls onTranscript before and after the analysis
handleFinalTranscript_twice(w, transcript) ==
    IF Trim(transcript) = <<>>
    THEN w
    ELSE LET transcription ==
                [id |-> now,
                 user |-> IF w.tm.currentUser = "" THEN "Unknown" ELSE w.tm.currentUser,
                 text |-> transcript]
             w1 == Call([w EXCEPT !.tm.transcriptions = Append(@, transcription)],
                        "onTranscript", transcription)
         IN  Call(Call(w1, "speechDetection.analyze", transcript),
                  "onTranscript", transcription)

handleFinalTranscript(w, transcript) ==
    IF Trim(transcript) = <<>>
    THEN w
    ELSE LET transcription ==
                [id |-> now,
                 user |-> IF w.tm.currentUser = "" THEN "Unknown" ELSE w.tm.currentUser,
                 text |-> transcript]
         IN  Call(Call([w EXCEPT !.tm.transcriptions = Append(@, transcription)],
                       "speechDetection.analyze", transcript),
                  "onTranscript", transcription)

\* handleInterimTranscript that trims the text it stores and delivers
handleInterimTranscript_trimmed(w, transcript) ==
    Call([w EXCEPT !.tm.currentTranscript = Trim(transcript)],
         "onInterimTranscript", Trim(transcript))

handleInterimTranscript(w, transcript) ==
    Call([w EXCEPT !.tm.currentTranscript = transcript],
         "onInterimTranscript", transcript)

\* addUser that keeps the name an id already has
addUser_keepsFirst(w, userId, userName) ==
    IF userId \in DOMAIN w.tm.users
    THEN w
    ELSE [w EXCEPT !.tm.users =
            [id \in DOMAIN @ \cup {userId} |-> IF id = userId THEN userName ELSE @[id]]]

\* removeUser that empties the map
removeUser_clearsAll(w, userId) == [w EXCEPT !.tm.users = <<>>]

\* this.users.set(userId, userName)
addUser(w, userId, userName) ==
    [w EXCEPT !.tm.users =
        [id \in DOMAIN @ \cup {userId} |-> IF id = userId THEN userName ELSE @[id]]]

\* this.users.delete(userId)
removeUser(w, userId) ==
    [w EXCEPT !.tm.users = [id \in DOMAIN @ \ {userId} |-> @[id]]]

\* the for loop of onresult, from index i (0-based) on
RECURSIVE Accumulate(_, _, _)
Accumulate(results, i, acc) ==
    IF i >= Len(results)
    THEN acc
    ELSE LET r == results[i + 1]
         IN  Accumulate(results, i + 1,
                IF r.isFinal
                THEN [acc EXCEPT !.final = @ \o r.transcript \o <<" ">>]
                ELSE [acc EXCEPT !.interim = @ \o r.transcript])

\* the loop of onresult run over every result of the event
Accumulated_fromFirst(event) ==
    Accumulate(event.results, 0, [final |-> <<>>, interim |-> <<>>])

\* finalTranscript and interimTranscript of onresult once its loop has run
Accumulated(event) ==
    Accumulate(event.results, event.resultIndex, [final |-> <<>>, interim |-> <<>>])

\* onresult that handles the interim text before the final text
onresult_interimFirst(w, event) ==
    LET acc == Accumulated(event)
        w1 == IF acc.interim # <<>>
              THEN handleInterimTranscript(w, acc.interim)
              ELSE w
    IN  IF acc.final # <<>>
        THEN handleFinalTranscript(w1, Trim(acc.final))
        ELSE w1

onresult(w, event) ==
    LET acc == Accumulated(event)
        w1 == IF acc.final # <<>>
              THEN handleFinalTranscript(w, Trim(acc.final))
              ELSE w
    IN  IF acc.interim # <<>>
        THEN handleInterimTranscript(w1, acc.interim)
        ELSE w1

\* ------------------------------------------------------------ AudioCapture
\* the state an AudioCapture handler runs on, and what it has done so far
AWorld ==
    [ac |-> ac, liveTracks |-> liveTracks, openContexts |-> openContexts,
     rafPending |-> rafPending, out |-> <<>>, threw |-> FALSE]

RECURSIVE SumTo(_, _)
SumTo(data, n) == IF n = 0 THEN 0 ELSE data[n] + SumTo(data, n - 1)

\* dataArray.reduce((a, b) => a + b) / dataArray.length, as a fraction
Average(data) == [num |-> SumTo(data, Len(data)), den |-> Len(data)]

\* a threshold test that lets the threshold itself through
IsSpeaking_fromThreshold(average) == average.num >= 30 * average.den

\* average > 30
IsSpeaking(average) == average.num > 30 * average.den

\* data: what getByteFrequencyData writes into dataArray at this tick
monitorAudioLevels(w, data) ==
    IF ~w.ac.isCapturing
    THEN w
    ELSE LET average == Average(data)
             w1 == IF IsSpeaking(average)
                   THEN [w EXCEPT !.out = Append(@, [cb |-> "onAudioData", arg |-> average])]
                   ELSE w
         IN  [w1 EXCEPT !.rafPending = @ + 1]

\* start() from the point where getUserMedia has resolved with stream id
start_resolved(w, id, data) ==
    LET w1 == [w EXCEPT !.ac.mediaStream = id,
                        !.liveTracks = @ \cup {id},
                        !.ac.audioContext = id,
                        !.openContexts = @ \cup {id},
                        !.ac.analyser = id,
                        !.ac.isCapturing = TRUE]
    IN  monitorAudioLevels(w1, data)

\* start() that sets isCapturing before it has the stream
start_rejected_capturing(w) == [w EXCEPT !.ac.isCapturing = TRUE, !.threw = TRUE]

\* start() from the point where getUserMedia has rejected: catch, log, rethrow
start_rejected(w) == [w EXCEPT !.threw = TRUE]

audio_stop(w) ==
    LET w1 == [w EXCEPT !.ac.isCapturing = FALSE]
        w2 == IF w1.ac.mediaStream # 0
              THEN [w1 EXCEPT !.liveTracks = @ \ {w1.ac.mediaStream},
                              !.ac.mediaStream = 0]
              ELSE w1
    IN  IF w2.ac.audioContext # 0
        THEN [w2 EXCEPT !.openContexts = @ \ {w2.ac.audioContext},
                        !.ac.audioContext = 0]
        ELSE w2

\* ----------------------------------------------------------------- actions
Commit(w) ==
    /\ tm' = w.tm
    /\ engine' = w.engine
    /\ timers' = w.timers
    /\ out' = w.out

Ran(kind, w) == last' = [kind |-> kind, threw |-> w.threw]

\* the callbacks of this handler that deliver a final transcript
Finals(w) == SelectSeq(w.out, LAMBDA c : c.cb = "onTranscript")

StartAs(names) ==
    \E userName \in names :
        LET w == start(World, userName)
        IN  /\ Commit(w)
            /\ Ran("start", w)
            /\ api' = [lastCall |-> "start", armed |-> 0, attempts |-> 0, started |-> 0,
                        label |-> userName]
            /\ UNCHANGED <<supported, now, batchNo, finalLog, avars, cvars, hvars>>

Stop ==
    LET w == stop(World)
    IN  /\ Commit(w)
        /\ Ran("stop", w)
        /\ api' = [lastCall |-> "stop", armed |-> timers, attempts |-> 0, started |-> 0,
                    label |-> api.label]
        /\ UNCHANGED <<supported, now, batchNo, finalLog, avars, cvars, hvars>>

OnStart ==
    /\ engine = "starting"
    /\ LET w == onstart([World EXCEPT !.engine = "listening"])
       IN  Commit(w) /\ Ran("onstart", w)
    /\ UNCHANGED <<supported, now, api, batchNo, finalLog, avars, cvars, hvars>>

\* the engine delivers a result event of events; where keep is set, the event
\* itself is kept as what the handler was called with
OnResultWith(events, keep) ==
    /\ engine \in {"listening", "stopping"}
    /\ batchNo < MaxBatches
    /\ \E event \in events :
        /\ event.resultIndex <= Len(event.results)
        /\ LET w == onresult(World, event)
               ran == [kind |-> "onresult", threw |-> w.threw,
                       final |-> Accumulated(event).final,
                       interim |-> Accumulated(event).interim]
           IN  /\ Len(w.tm.transcriptions) <= MaxLedger
               /\ Commit(w)
               /\ last' = IF keep
                           THEN [kind |-> ran.kind, threw |-> ran.threw,
                                 final |-> ran.final, interim |-> ran.interim,
                                 event |-> event]
                           ELSE ran
               /\ batchNo' = batchNo + 1
               /\ finalLog' = finalLog \o
                    [i \in 1..Len(Finals(w)) |->
                        [batch |-> batchNo + 1, arg |-> Finals(w)[i].arg]]
    /\ UNCHANGED <<supported, now, api, avars, cvars, hvars>>

OnResultFrom(events) == OnResultWith(events, FALSE)

OnError ==
    /\ EngineActive
    /\ \E error \in ErrorKinds :
        LET w == onerror(World, error)
        IN  /\ Commit(w)
            /\ last' = [kind |-> "onerror", threw |-> w.threw, error |-> error]
    /\ UNCHANGED <<supported, now, api, batchNo, finalLog, avars, cvars, hvars>>

OnEnd ==
    /\ EngineActive
    /\ LET w == onend(World)
       IN  /\ w.timers <= MaxTimers
           /\ Commit(w)
           /\ Ran("onend", w)
    /\ UNCHANGED <<supported, now, api, batchNo, finalLog, avars, cvars, hvars>>

TimerFire ==
    /\ timers > 0
    /\ LET w == restartTimer(World)
       IN  /\ Commit(w)
           /\ Ran("timer", w)
           /\ api' = IF api.lastCall = "stop"
                     THEN [api EXCEPT !.attempts = @ + w.starts,
                                      !.started = @ + w.started]
                     ELSE api
    /\ UNCHANGED <<supported, now, batchNo, finalLog, avars, cvars, hvars>>

\* this.users.get(userId), "" standing for undefined
NameOf(userId) == IF userId \in DOMAIN tm.users THEN tm.users[userId] ELSE ""

\* a participant with an id of ids joins
AddUserOf(ids) ==
    /\ \E userId \in ids, userName \in UserNames :
        LET w == addUser(World, userId, userName)
        IN  /\ Commit(w)
            /\ last' = [kind |-> "addUser", threw |-> w.threw, userId |-> userId,
                         userName |-> userName, had |-> NameOf(userId)]
    /\ UNCHANGED <<supported, now, api, batchNo, finalLog, avars, cvars, hvars>>

AddUser == AddUserOf(UserIds)

\* a participant with an id of ids leaves
RemoveUserOf(ids) ==
    /\ \E userId \in ids :
        LET w == removeUser(World, userId)
        IN  /\ Commit(w)
            /\ last' = [kind |-> "removeUser", threw |-> w.threw, userId |-> userId,
                         had |-> NameOf(userId)]
    /\ UNCHANGED <<supported, now, api, batchNo, finalLog, avars, cvars, hvars>>

RemoveUser == RemoveUserOf(UserIds)

\* a millisecond passes
ClockTick ==
    /\ now < MaxClock
    /\ now' = now + 1
    /\ UNCHANGED <<tm, supported, engine, timers, out, last, api, batchNo, finalLog, avars, cvars, hvars>>

\* the object after the constructor; shouldContinue and currentUser are not
\* yet set (undefined, falsy)
Init ==
    /\ tm = [recognition |-> FALSE, isTranscribing |-> FALSE, shouldContinue |-> FALSE,
             currentUser |-> "", transcriptions |-> <<>>, currentTranscript |-> <<>>,
             users |-> <<>>]
    /\ supported \in BOOLEAN
    /\ engine = "inactive"
    /\ timers = 0
    /\ now = 0
    /\ out = <<>>
    /\ last = [kind |-> "new", threw |-> FALSE]
    /\ api = [lastCall |-> "none", armed |-> 0, attempts |-> 0, started |-> 0,
               label |-> ""]
    /\ batchNo = 0
    /\ finalLog = <<>>
    /\ ac = [mediaStream |-> 0, audioContext |-> 0, analyser |-> 0, isCapturing |-> FALSE]
    /\ gumPending = 0
    /\ streams = 0
    /\ liveTracks = {}
    /\ openContexts = {}
    /\ rafPending = 0
    /\ aout = <<>>
    /\ alast = [kind |-> "new", threw |-> FALSE]
    /\ aapi = [lastCall |-> "none", levelSince |-> FALSE]
    /\ ctext = <<>>
    /\ cres = <<>>
    /\ sd = [lastIndex |-> 0]
    /\ clog = <<>>
    /\ req = <<>>
    /\ res = <<>>

Next ==
    \/ StartAs(UserNames)
    \/ Stop
    \/ OnStart
    \/ OnResultFrom(SimpleEvents)
    \/ OnError
    \/ OnEnd
    \/ TimerFire
    \/ ClockTick

Spec == Init /\ [][Next]_vars

NextLedger ==
    \/ StartAs(LedgerUsers)
    \/ OnStart
    \/ OnResultFrom(Events)
    \/ OnEnd
    \/ TimerFire
    \/ ClockTick

SpecLedger == Init /\ [][NextLedger]_vars

\* every operation of the session, the registry included, at one instant
NextSession ==
    \/ StartAs(Labels)
    \/ Stop
    \/ OnStart
    \/ OnResultFrom(SimpleEvents)
    \/ OnError
    \/ OnEnd
    \/ TimerFire
    \/ AddUser
    \/ RemoveUser

SpecSession == Init /\ [][NextSession]_vars

\* result events, each seen with the results and the index it carried
NextBatch ==
    \/ StartAs(LedgerUsers)
    \/ OnStart
    \/ OnResultWith(Events, TRUE)

SpecBatch == Init /\ [][NextBatch]_vars

\* the registry of a session that fills its ledger
NextRegistry ==
    \/ StartAs(LedgerUsers)
    \/ OnStart
    \/ OnResultFrom(SimpleEvents)
    \/ AddUserOf(RegistryIds)
    \/ RemoveUserOf(RegistryIds)

SpecRegistry == Init /\ [][NextRegistry]_vars

\* the life cycle alone; a timeout that is armed runs its callback
NextRetry ==
    \/ StartAs(LedgerUsers)
    \/ Stop
    \/ OnStart
    \/ OnError
    \/ OnEnd
    \/ TimerFire

SpecRetry == Init /\ [][NextRetry]_vars /\ WF_vars(TimerFire)

\* the engine ends because recognition.stop() asked it to
HaltHonoured == engine = "stopping" /\ OnEnd

\* the life cycle with an engine that starts when asked to and ends when asked
\* to, but need not end on its own
SpecHalt ==
    /\ Init /\ [][NextRetry]_vars
    /\ WF_vars(TimerFire)
    /\ WF_vars(OnStart)
    /\ WF_vars(HaltHonoured)

ACommit(w) ==
    /\ ac' = w.ac
    /\ liveTracks' = w.liveTracks
    /\ openContexts' = w.openContexts
    /\ rafPending' = w.rafPending
    /\ aout' = w.out

ARan(kind, w) ==
    /\ alast' = [kind |-> kind, threw |-> w.threw]
    /\ aapi' = IF aapi.lastCall = "stop" /\ w.out # <<>>
               THEN [aapi EXCEPT !.levelSince = TRUE]
               ELSE aapi

\* start() up to its await: the request for the microphone is under way
AudioStart ==
    /\ gumPending < MaxPending
    /\ gumPending' = gumPending + 1
    /\ alast' = [kind |-> "start", threw |-> FALSE]
    /\ aapi' = [lastCall |-> "start", levelSince |-> FALSE]
    /\ aout' = <<>>
    /\ UNCHANGED <<ac, streams, liveTracks, openContexts, rafPending, svars, cvars, hvars>>

\* getUserMedia resolves and a suspended start() runs to its end
GumResolve ==
    /\ gumPending > 0
    /\ streams < MaxStreams
    /\ \E data \in FrequencyData :
        LET w == start_resolved(AWorld, streams + 1, data)
        IN  ACommit(w) /\ ARan("resolved", w)
    /\ gumPending' = gumPending - 1
    /\ streams' = streams + 1
    /\ UNCHANGED <<svars, cvars, hvars>>

\* getUserMedia rejects and a suspended start() fails
GumReject ==
    /\ gumPending > 0
    /\ LET w == start_rejected(AWorld)
       IN  ACommit(w) /\ ARan("rejected", w)
    /\ gumPending' = gumPending - 1
    /\ UNCHANGED <<streams, svars, cvars, hvars>>

\* a scheduled animation frame callback runs
RafTick ==
    /\ rafPending > 0
    /\ \E data \in FrequencyData :
        LET w == monitorAudioLevels([AWorld EXCEPT !.rafPending = @ - 1], data)
        IN  /\ ACommit(w)
            /\ alast' = [kind |-> "tick", threw |-> w.threw,
                          data |-> IF ac.isCapturing THEN data ELSE <<>>]
            /\ aapi' = IF aapi.lastCall = "stop" /\ w.out # <<>>
                        THEN [aapi EXCEPT !.levelSince = TRUE]
                        ELSE aapi
    /\ UNCHANGED <<gumPending, streams, svars, cvars, hvars>>

AudioStop ==
    /\ LET w == audio_stop(AWorld)
       IN  ACommit(w) /\ alast' = [kind |-> "stop", threw |-> w.threw]
    /\ aapi' = [lastCall |-> "stop", levelSince |-> FALSE]
    /\ UNCHANGED <<gumPending, streams, svars, cvars, hvars>>

NextAudio ==
    \/ AudioStart
    \/ GumResolve
    \/ GumReject
    \/ RafTick
    \/ AudioStop

SpecAudio == Init /\ [][NextAudio]_vars

\* a call of analyze on the object, with a text of texts
AnalyzeFrom(texts) ==
    /\ \E text \in texts :
        LET r == analyze_on(sd, text)
        IN  /\ ctext' = text
            /\ cres' = <<r.result>>
            /\ sd' = r.sd
            /\ clog' = Append(clog, [text |-> text, result |-> r.result])
    /\ UNCHANGED <<svars, avars, hvars>>

\* the caller classifies a text
Analyze ==
    /\ cres = <<>>
    /\ AnalyzeFrom(Texts)

NextClassifier == Analyze

SpecClassifier == Init /\ [][NextClassifier]_vars

\* the caller classifies one text after another
AnalyzeAgain ==
    /\ Len(clog) < MaxCalls
    /\ AnalyzeFrom(RepeatTexts)

NextRepeat == AnalyzeAgain

SpecRepeat == Init /\ [][NextRepeat]_vars

\* a client posts a request body to /api/generate-token
PostGenerateToken ==
    /\ res = <<>>
    /\ \E body \in RequestBodies :
        /\ req' = <<body>>
        /\ res' = <<generateToken(body)>>
    /\ UNCHANGED <<svars, avars, cvars>>

NextServer == PostGenerateToken

SpecServer == Init /\ [][NextServer]_vars

\* ---------------------------------------------------- claims: the session
AllSpaces(s) == \A i \in 1..Len(s) : IsSpace(s[i])

\* an end event is delivered in this step
EndDelivered == engine # "inactive" /\ engine' = "inactive"

\* C1: every end event delivered while the caller's last call was start()
\* arms exactly one restart timer; every end event delivered after stop()
\* arms none.
C1_RestartPerEnd ==
    [][EndDelivered =>
        timers' = timers + (IF api.lastCall = "start" THEN 1 ELSE 0)]_vars

\* an end event armed a restart, stop() followed, and the next end event armed none
C1_Witness ==
    /\ last.kind = "onend"
    /\ api.lastCall = "stop"
    /\ api.armed = 1
    /\ api.attempts = 0
    /\ timers = 1

\* C2 (as claimed): after stop(), until the next start(), no restart is armed
\* and no call of recognition.start() starts the engine.
C2_NoActivityAfterStop ==
    api.lastCall = "stop" => (api.started = 0 /\ timers <= api.armed)

\* C3: stop() leaves the armed restart timers armed; after stop(), until the
\* next start(), each of them makes exactly one call of recognition.start()
\* when it fires and no timer is armed again.
C3_ArmedRestartFiresOnce ==
    api.lastCall = "stop" => timers + api.attempts = api.armed

\* stop() found a restart armed, the restart started the engine, the engine
\* ended again and nothing is armed
C3_Witness ==
    /\ api.lastCall = "stop"
    /\ api.armed = 1
    /\ api.started = 1
    /\ last.kind = "onend"
    /\ timers = 0

\* C4 (as claimed): ids strictly increase along the ledger.
C4_IdsStrictlyIncrease ==
    \A i, j \in 1..Len(tm.transcriptions) :
        i < j => tm.transcriptions[i].id < tm.transcriptions[j].id

\* a result event is handled in this step
ResultHandled == batchNo' = batchNo + 1

\* C5: a result event whose final text is empty after trimming leaves the
\* ledger as it is and calls onTranscript not at all, and every text in the
\* ledger is non-empty and neither starts nor ends with white space.
C5_EmptyFinalDropped ==
    /\ [][(ResultHandled /\ AllSpaces(last'.final)) =>
            (/\ tm'.transcriptions = tm.transcriptions
             /\ finalLog' = finalLog
             /\ \A i \in 1..Len(out') : out'[i].cb # "onTranscript")]_vars
    /\ [](\A i \in 1..Len(tm.transcriptions) :
            LET text == tm.transcriptions[i].text
            IN  /\ text # <<>>
                /\ ~IsSpace(text[1])
                /\ ~IsSpace(text[Len(text)]))

\* a final text of white space only was handled while the ledger held a transcript
C5_Witness ==
    /\ last.kind = "onresult"
    /\ last.final # <<>>
    /\ AllSpaces(last.final)
    /\ Len(tm.transcriptions) >= 1

\* C6: onTranscript calls happen in the order the result events were
\* received, the ledger holds exactly the transcripts delivered, in that
\* order, and ids never decrease along it.
C6_DeliveryOrder ==
    /\ \A i, j \in 1..Len(finalLog) : i < j => finalLog[i].batch < finalLog[j].batch
    /\ tm.transcriptions = [i \in 1..Len(finalLog) |-> finalLog[i].arg]
    /\ \A i, j \in 1..Len(tm.transcriptions) :
            i < j => tm.transcriptions[i].id <= tm.transcriptions[j].id

\* two transcripts with different texts and ids from different result events
C6_Witness ==
    /\ Len(finalLog) = 2
    /\ finalLog[1].arg.text # finalLog[2].arg.text
    /\ finalLog[1].arg.id < finalLog[2].arg.id

\* what handleFinalTranscript did in the handler that ran in this step
FinalPath == SelectSeq(out', LAMBDA c : c.cb # "onInterimTranscript")

\* the transcript this step appended to the ledger
Appended == tm'.transcriptions[Len(tm'.transcriptions)]

C14_InterimVerbatim ==
    [][(ResultHandled /\ last'.interim # <<>>) =>
        (/\ tm'.currentTranscript = last'.interim
         /\ out'[Len(out')] = [cb |-> "onInterimTranscript", arg |-> last'.interim]
         /\ Len(out') = Len(FinalPath) + 1
         /\ AllSpaces(last'.final) =>
                (/\ tm'.transcriptions = tm.transcriptions
                 /\ finalLog' = finalLog
                 /\ FinalPath = <<>>))]_vars

\* an interim text with leading white space was delivered, with no final text,
\* while the ledger held a transcript
C14_Witness ==
    /\ last.kind = "onresult"
    /\ last.final = <<>>
    /\ last.interim = <<" ", "a">>
    /\ out = <<[cb |-> "onInterimTranscript", arg |-> <<" ", "a">>]>>
    /\ tm.currentTranscript = <<" ", "a">>
    /\ Len(tm.transcriptions) >= 1

\* a transcript is appended to the ledger in this step
Grows == Len(tm'.transcriptions) > Len(tm.transcriptions)

\* C15 (as claimed): every transcript carries the userName of the latest
\* start() call.
C15_AttributedToLabel == [][Grows => Appended.user = api'.label]_vars

\* C15: every transcript carries the userName of the latest start() call, or
\* "Unknown" where that userName is the empty string, whatever the registry
\* holds; adding and removing users changes neither currentUser nor the ledger.
C15_AttributedToLabelOrUnknown ==
    [][/\ Grows =>
            Appended.user = (IF api'.label = "" THEN "Unknown" ELSE api'.label)
       /\ tm'.users # tm.users =>
            (/\ tm'.currentUser = tm.currentUser
             /\ tm'.transcriptions = tm.transcriptions)]_vars

\* after start("alice") and start(""), with a user registered under another
\* name, the ledger holds a transcript of each session
C15_Witness ==
    /\ last.kind = "onresult"
    /\ Len(tm.transcriptions) = 2
    /\ tm.transcriptions[1].user = "alice"
    /\ tm.transcriptions[2].user = "Unknown"
    /\ api.label = ""
    /\ DOMAIN tm.users = {"u1"}
    /\ tm.users["u1"] = "bob"

\* C17: no step removes, reorders or changes a transcript of the ledger: the
\* ledger before a step is a prefix of the ledger after it, and it grows only
\* where a result event with a non-empty trimmed final text is handled.
C17_LedgerAppendOnly ==
    [][/\ Len(tm'.transcriptions) >= Len(tm.transcriptions)
       /\ SubSeq(tm'.transcriptions, 1, Len(tm.transcriptions)) = tm.transcriptions
       /\ tm'.transcriptions # tm.transcriptions =>
            (ResultHandled /\ ~AllSpaces(last'.final))]_vars

\* stop() ran on a session with a registered user and left the ledger of two
\* transcripts as it was
C17_Witness ==
    /\ last.kind = "stop"
    /\ Len(tm.transcriptions) = 2
    /\ DOMAIN tm.users # {}

\* the texts of a sequence of texts, one after the other
RECURSIVE Concat(_)
Concat(texts) == IF texts = <<>> THEN <<>> ELSE texts[1] \o Concat(Tail(texts))

\* the results of event from its resultIndex on, final ones or interim ones
NewResults(event, isFinal) ==
    SelectSeq(SubSeq(event.results, event.resultIndex + 1, Len(event.results)),
              LAMBDA r : r.isFinal = isFinal)

\* C28: a result event contributes only its results from resultIndex on. The
\* final ones, each followed by a space, make one text in their order: if it
\* is non-empty after trimming, exactly one transcript with the trimmed text
\* is appended, else none. The interim ones make one text in their order: if
\* it is non-empty, onInterimTranscript is called once with it, else not.
C28_OneTranscriptPerBatch ==
    [][ResultHandled =>
        LET event == last'.event
            finals == NewResults(event, TRUE)
            final == Concat([i \in 1..Len(finals) |-> finals[i].transcript \o <<" ">>])
            interims == NewResults(event, FALSE)
            interim == Concat([i \in 1..Len(interims) |-> interims[i].transcript])
            interimCalls == SelectSeq(out', LAMBDA c : c.cb = "onInterimTranscript")
        IN  /\ IF AllSpaces(final)
               THEN tm'.transcriptions = tm.transcriptions
               ELSE /\ Len(tm'.transcriptions) = Len(tm.transcriptions) + 1
                    /\ Appended.text = Trim(final)
            /\ Len(Finals([out |-> out'])) = (IF AllSpaces(final) THEN 0 ELSE 1)
            /\ IF interim = <<>>
               THEN interimCalls = <<>>
               ELSE interimCalls = <<[cb |-> "onInterimTranscript", arg |-> interim]>>]_vars

\* an event of two final results with resultIndex 1: only the second is in
\* the transcript appended
C28_Witness ==
    /\ last.kind = "onresult"
    /\ "event" \in DOMAIN last
    /\ last.event.resultIndex = 1
    /\ Len(last.event.results) = 2
    /\ \A i \in 1..2 : last.event.results[i] = [transcript |-> <<" ", "a">>, isFinal |-> TRUE]
    /\ Len(tm.transcriptions) = 1
    /\ tm.transcriptions[1].text = <<"a">>

\* C33: where a result event carries a final text that is non-empty after
\* trimming and a non-empty interim text, onTranscript is called before
\* onInterimTranscript, each once, and currentTranscript ends as the interim
\* text; where it carries such a final text and no interim text,
\* currentTranscript stays as it was.
C33_FinalBeforeInterim ==
    [][(ResultHandled /\ ~AllSpaces(last'.final)) =>
        IF last'.interim # <<>>
        THEN /\ Len(out') = 3
             /\ out'[2].cb = "onTranscript"
             /\ out'[2].arg = Appended
             /\ out'[3] = [cb |-> "onInterimTranscript", arg |-> last'.interim]
             /\ tm'.currentTranscript = last'.interim
        ELSE /\ \A i \in 1..Len(out') : out'[i].cb # "onInterimTranscript"
             /\ tm'.currentTranscript = tm.currentTranscript]_vars

\* an event with a final and an interim text was handled: the transcript was
\* delivered, then the interim text, which is the current one
C33_Witness ==
    /\ last.kind = "onresult"
    /\ ~AllSpaces(last.final)
    /\ last.interim = <<" ", "a">>
    /\ Len(out) = 3
    /\ out[2].cb = "onTranscript"
    /\ out[3].cb = "onInterimTranscript"
    /\ tm.currentTranscript = <<" ", "a">>
    /\ Len(tm.transcriptions) >= 1

\* ------------------------------------------------- claims: the registry
\* C24: the registry maps an id to one name; addUser(id, name) leaves the id
\* mapped to name, whether or not it was present, and changes no other entry
\* and nothing else of the session.
C24_AddOverwrites ==
    [][(last'.kind = "addUser" /\ now' = now) =>
        (/\ DOMAIN tm'.users = DOMAIN tm.users \cup {last'.userId}
         /\ tm'.users[last'.userId] = last'.userName
         /\ \A id \in DOMAIN tm.users \ {last'.userId} : tm'.users[id] = tm.users[id]
         /\ tm' = [tm EXCEPT !.users = tm'.users]
         /\ out' = <<>>
         /\ ~last'.threw)]_vars

\* u1 was registered as alice and is now bob, with u2 still alice
C24_Witness ==
    /\ last.kind = "addUser"
    /\ last.userId = "u1"
    /\ last.had = "alice"
    /\ tm.users = [id \in {"u1", "u2"} |-> IF id = "u1" THEN "bob" ELSE "alice"]

\* C25: removeUser(id) leaves the id unmapped, whether or not it was present,
\* calls no callback, does not throw, and changes no other entry and nothing
\* else of the session; for an absent id it changes nothing at all.
C25_RemoveDeletesOne ==
    [][(last'.kind = "removeUser" /\ now' = now) =>
        (/\ DOMAIN tm'.users = DOMAIN tm.users \ {last'.userId}
         /\ \A id \in DOMAIN tm'.users : tm'.users[id] = tm.users[id]
         /\ tm' = [tm EXCEPT !.users = tm'.users]
         /\ last'.had = "" => tm' = tm
         /\ out' = <<>>
         /\ ~last'.threw
         /\ engine' = engine
         /\ timers' = timers)]_vars

\* an absent id was removed from a registry holding another id, with a
\* transcript in the ledger
C25_Witness ==
    /\ last.kind = "removeUser"
    /\ last.userId = "u1"
    /\ last.had = ""
    /\ DOMAIN tm.users = {"u2"}
    /\ Len(tm.transcriptions) >= 1

\* ------------------------------------------------- claims: AudioCapture
\* C7 (as claimed): after stop(), until the next start(), onAudioData is not called.
C7_NoLevelAfterStop == aapi.lastCall = "stop" => ~aapi.levelSince

\* C8 (as claimed): after stop(), until the next start(), no acquired stream
\* has a live track and no AudioContext is open.
C8_AllReleasedAfterStop ==
    aapi.lastCall = "stop" => (liveTracks = {} /\ openContexts = {})

\* a suspended start() fails in this step
StartFails == gumPending' = gumPending - 1 /\ streams' = streams

\* C9: when getUserMedia rejects, start() throws, leaves isCapturing (and the
\* rest of the object) as it was, schedules no tick and calls no callback.
C9_FailedStartLeavesIdle ==
    [][StartFails =>
        (/\ alast'.threw
         /\ ac' = ac
         /\ rafPending' = rafPending
         /\ aout' = <<>>)]_vars

\* the only start() failed: it threw, nothing is captured, no tick is scheduled
C9_Witness ==
    /\ alast.kind = "rejected"
    /\ alast.threw
    /\ gumPending = 0
    /\ streams = 0
    /\ ~ac.isCapturing
    /\ rafPending = 0

\* C27: a tick that runs while isCapturing is set calls onAudioData with the
\* mean of the bins exactly when that mean is above 30, and schedules one next
\* tick; a tick that runs while isCapturing is clear reads no data, calls
\* nothing and schedules nothing. Neither changes the object.
C27_TickReportsAboveThreshold ==
    [][alast'.kind = "tick" =>
        IF ac.isCapturing
        THEN LET data == alast'.data
                 sum == SumTo(data, Len(data))
             IN  /\ Len(data) = NumBins
                 /\ sum > 30 * Len(data) =>
                        aout' = <<[cb |-> "onAudioData",
                                   arg |-> [num |-> sum, den |-> Len(data)]]>>
                 /\ sum <= 30 * Len(data) => aout' = <<>>
                 /\ rafPending' = rafPending
                 /\ ac' = ac
        ELSE /\ alast'.data = <<>>
             /\ aout' = <<>>
             /\ rafPending' = rafPending - 1
             /\ ac' = ac]_vars

\* a tick read a mean of exactly 30 while capturing and reported nothing
C27_Witness ==
    /\ alast.kind = "tick"
    /\ alast.data = [i \in 1..NumBins |-> 30]
    /\ ac.isCapturing
    /\ aout = <<>>
    /\ rafPending >= 1

\* ------------------------------------------- claims: engine errors
\* C10: a 'no-speech' error calls no callback and changes nothing of the
\* session: not the flags, not the armed timers, not the engine.
C10_NoSpeechSwallowed ==
    [][(last'.kind = "onerror" /\ last'.error = "no-speech" /\ now' = now) =>
        (/\ out' = <<>>
         /\ tm' = tm
         /\ timers' = timers
         /\ engine' = engine)]_vars

\* a 'no-speech' error was delivered to a listening session that is to continue
C10_Witness ==
    /\ last.kind = "onerror"
    /\ last.error = "no-speech"
    /\ tm.shouldContinue
    /\ engine = "listening"

\* C11: an engine error other than 'no-speech' is forwarded to
\* onTranscriptionError exactly once, and the handler changes nothing else:
\* not shouldContinue or any other field, not the engine, not the armed timers.
C11_OtherErrorForwardedOnce ==
    [][(last'.kind = "onerror" /\ last'.error # "no-speech" /\ now' = now) =>
        (/\ out' = <<[cb |-> "onTranscriptionError", arg |-> last'.error]>>
         /\ ~last'.threw
         /\ tm' = tm
         /\ timers' = timers
         /\ engine' = engine)]_vars

\* a 'network' error was forwarded from a listening session that is to continue
C11_Witness ==
    /\ last.kind = "onerror"
    /\ last.error = "network"
    /\ out = <<[cb |-> "onTranscriptionError", arg |-> "network"]>>
    /\ tm.shouldContinue
    /\ engine = "listening"

\* C12: where the environment has no SpeechRecognition, every start() throws,
\* shouldContinue is never set, no recognition object exists, the engine is
\* never started and no restart timer is ever armed.
C12_StartFailsWithoutEngine ==
    ~supported =>
        /\ last.kind = "start" => last.threw
        /\ ~tm.shouldContinue
        /\ ~tm.recognition
        /\ engine = "inactive"
        /\ timers = 0

\* start() was called without SpeechRecognition and threw
C12_Witness ==
    /\ ~supported
    /\ last.kind = "start"
    /\ last.threw
    /\ api.lastCall = "start"

\* C16: while shouldContinue is set, an engine that has ended is always
\* started again: a restart is armed whenever the engine is inactive, there is
\* no count of restarts that could run out, and the engine does not stay
\* inactive for ever.
C16_RetriesIndefinitely ==
    /\ [](tm.shouldContinue /\ engine = "inactive" => timers > 0)
    /\ (tm.shouldContinue /\ engine = "inactive")
            ~> (engine # "inactive" \/ ~tm.shouldContinue)

\* after start(), the last armed timer has fired and started the engine again
C16_Witness ==
    /\ api.lastCall = "start"
    /\ tm.shouldContinue
    /\ last.kind = "timer"
    /\ ~last.threw
    /\ engine = "starting"
    /\ timers = 0

\* C29 (as claimed): after stop(), unless the caller calls start() again, the
\* engine comes to rest: inactive, with no restart armed.
C29_StopSettles ==
    (api.lastCall = "stop") ~>
        (api.lastCall # "stop" \/ (engine = "inactive" /\ timers = 0))

\* recognition.start() is called in this step, by start() or by a restart timer
StartRequested ==
    /\ now' = now
    /\ last'.kind = "timer" \/ (last'.kind = "start" /\ supported)

\* C30 (as claimed): every call of recognition.start() finds the engine
\* inactive.
C30_StartRequestFindsInactive == [][StartRequested => engine = "inactive"]_vars

\* start() runs in this step
StartCalled == last'.kind = "start" /\ now' = now

\* C31 (as claimed): a start() that throws leaves shouldContinue clear, so
\* that no end event arms a restart; at the least it does not set a flag
\* that was clear when it was called.
C31_FailedStartClearsFlag ==
    [][(StartCalled /\ last'.threw /\ ~tm.shouldContinue) => ~tm'.shouldContinue]_vars

\* C32 (as claimed): there is never more than one scheduled tick of
\* monitorAudioLevels.
C32_OneLoop == rafPending <= 1

\* ------------------------------------------------- claims: the classifier
\* C18: the type of a result follows from its two detections, the command
\* detection taking precedence: "command" whenever isCommand is true (isQuestion
\* keeps its own value), "question" when only isQuestion is true, "statement"
\* when neither is; each detection is the match of its own patterns
C18_CommandPrecedence ==
    cres # <<>> =>
        LET r == cres[1]
        IN  /\ r.isQuestion = MatchesQuestion(ctext)
            /\ r.isCommand = MatchesCommand(ctext)
            /\ r.isCommand => r.type = "command"
            /\ r.isQuestion /\ ~r.isCommand => r.type = "question"
            /\ ~r.isQuestion /\ ~r.isCommand => r.type = "statement"

C18_Witness ==
    /\ cres # <<>>
    /\ cres[1].isQuestion /\ cres[1].isCommand
    /\ cres[1].type = "command"

\* C19: the emotion is the first category that matches in the order positive
\* lexicon, negative lexicon, "?", "!", and "neutral" exactly when none matches
C19_EmotionPriority ==
    cres # <<>> =>
        LET positive == TestWords(PositiveWords, ctext)
            negative == TestWords(NegativeWords, ctext)
            question == TestChar("?", ctext)
            exclamation == TestChar("!", ctext)
        IN  /\ positive => cres[1].emotion = "positive"
            /\ ~positive /\ negative => cres[1].emotion = "negative"
            /\ ~positive /\ ~negative /\ question => cres[1].emotion = "question"
            /\ ~positive /\ ~negative /\ ~question /\ exclamation
                   => cres[1].emotion = "exclamation"
            /\ cres[1].emotion = "neutral"
                   <=> ~(positive \/ negative \/ question \/ exclamation)

C19_Witness ==
    /\ cres # <<>>
    /\ TestWords(PositiveWords, ctext)
    /\ TestChar("?", ctext)
    /\ cres[1].emotion = "positive"

\* C20: the result for an empty or white-space-only text has hasSpeech false and
\* every other field at its default: type "statement", isQuestion and isCommand
\* false, emotion "neutral", no keywords
C20_NoSpeechIsDefault ==
    cres # <<>> /\ AllSpaces(ctext) =>
        /\ ~cres[1].hasSpeech
        /\ cres[1].type = "statement"
        /\ ~cres[1].isQuestion
        /\ ~cres[1].isCommand
        /\ cres[1].emotion = "neutral"
        /\ cres[1].keywords = <<>>

C20_Witness ==
    /\ cres # <<>>
    /\ ctext = <<" ">>
    /\ ~cres[1].hasSpeech

\* the white-space-delimited tokens of s, in order: its maximal runs of
\* characters that are not white space
RECURSIVE TokensFrom(_, _, _)
TokensFrom(s, i, cur) ==
    IF i > Len(s)
    THEN IF cur = <<>> THEN <<>> ELSE <<cur>>
    ELSE IF IsSpace(s[i])
         THEN (IF cur = <<>> THEN <<>> ELSE <<cur>>) \o TokensFrom(s, i + 1, <<>>)
         ELSE TokensFrom(s, i + 1, Append(cur, s[i]))

TokensOf(s) == TokensFrom(s, 1, <<>>)

\* C21: keywords is the sequence of the white-space-delimited tokens of the
\* lower-cased text that are longer than 4 characters, in their order, with
\* duplicates and punctuation kept.
C21_KeywordsLongTokens ==
    cres # <<>> =>
        cres[1].keywords =
            SelectSeq(TokensOf(ToLowerCase(ctext)), LAMBDA token : Len(token) > 4)

\* a text with a token of length 4, left out, and 'meeting?', kept
C21_Witness ==
    /\ cres # <<>>
    /\ ctext = <<"W", "h", "a", "t", " ", "m", "e", "e", "t", "i", "n", "g", "?">>
    /\ cres[1].keywords = <<<<"m", "e", "e", "t", "i", "n", "g", "?">>>>

\* C22 (as claimed): wordCount is the number of white-space-delimited tokens
\* of the text, for every text.
C22_WordCountIsTokenCount ==
    cres # <<>> => cres[1].wordCount = Len(TokensOf(ctext))

C26_TokenOnlyForValidRole ==
    res # <<>> =>
        LET body == req[1]
            complete == /\ body.sessionName.defined /\ body.role.defined
                        /\ body.sessionKey.defined /\ body.userIdentity.defined
            roleOk == body.role.text \in {<<"0">>, <<"1">>}
        IN  /\ res[1].token # <<>> => (complete /\ roleOk)
            /\ ~(complete /\ roleOk) => (res[1].status = 400 /\ res[1].token = <<>>)

====
